---- MODULE Spec2Model ----
(***************************************************************************)
(* Cloud metadata collectors of rhsmlib.cloud: the AWS collector with its  *)
(* IMDSv1/IMDSv2 exchange and its token cache (in memory and on disk), and *)
(* the GCP collector.  One caller runs one public operation at a time (the *)
(* code is synchronous and single-threaded); every other party (metadata   *)
(* service, clock, file system, other processes using the cache file) is   *)
(* an environment whose answers are chosen nondeterministically.           *)
(***************************************************************************)
EXTENDS Integers, Sequences, FiniteSets, TLC

VARIABLES
    now,          \* time.time(), in seconds
    token,        \* AWSCloudCollector._token
    token_ctime,  \* AWSCloudCollector._token_ctime
    cache_file,   \* TOKEN_CACHE_FILE on disk: existence, mode, content
    pc,           \* position of the caller inside the running operation
    op,           \* the public operation running, or the last one that ran
    held,         \* local variable `token` of _get_token / _get_metadata_from_server_imds_v2
    reqs,         \* HTTP requests issued by the running (or last) operation, with answers
    file_ops,     \* accesses to TOKEN_CACHE_FILE made by the running (or last) operation
    entry,        \* history: _token and _token_ctime when the operation was entered
    ret,          \* what the last operation gave its caller
    gcp_fields,   \* GCPCloudCollector instance fields (metadata, signature)
    gcp_calls,    \* history: number of GCP get_metadata calls made
    gcp_gets,     \* history: number of GETs issued by the GCP collector
    cached,       \* history: what the cache lookup of CloudCollector.get_* gave
    hw_info,      \* CloudDetector.hw_info: the facts a detector was built with
    detected,     \* what the detector functions last gave on hw_info
    race_file,    \* TOKEN_CACHE_FILE as two collector processes share it
    proc_pc,      \* position of each of the two processes inside _get_token
    proc_token,   \* _token and _token_ctime of each process, length of its file content
    proc_read,    \* history: what the cache-file read of each process gave
    last_writer,  \* history: the process whose data reached the file last
    resolved      \* history: what the last run of _get_token gave, when, on which file

vars == <<now, token, token_ctime, cache_file, pc, op, held, reqs, file_ops,
          entry, ret, gcp_fields, gcp_calls, gcp_gets, cached, hw_info, detected,
          race_file, proc_pc, proc_token, proc_read, last_writer, resolved>>

aws_vars == <<now, token, token_ctime, cache_file, held, file_ops, entry>>

gcp_vars == <<gcp_fields, gcp_calls, gcp_gets>>

base_vars == <<cached>>

detector_vars == <<hw_info, detected>>

race_vars == <<race_file, proc_pc, proc_token, proc_read, last_writer>>

hist_vars == <<resolved>>

----------------------------------------------------------------------------
(* Bounds of the model *)

\* The clock advances in steps of TickStep seconds up to MaxTime.
TickStep == 120

MaxTime == 600

\* Number of GCP get_metadata calls followed.
MaxCalls == 6

(* Program constants *)

CLOUD_PROVIDER_TOKEN_TTL == 360

\* None, for _token_ctime
NoTime == -1

AWS_METADATA_URL == "http://169.254.169.254/latest/dynamic/instance-identity/document"

AWS_TOKEN_URL == "http://169.254.169.254/latest/api/token"

AWS_SIGNATURE_URL == "http://169.254.169.254/latest/dynamic/instance-identity/signature"

GCP_METADATA_URL == "http://metadata/computeMetadata/v1/instance/service-accounts/default/identity?audience=RHSM/1.0&format=full"

\* Value of a header that a request does not carry
NoHeader == ""

\* HTTP_HEADERS of the AWS collector
AWS_HTTP_HEADERS == [ua |-> "RHSM/1.0", flavor |-> NoHeader]

\* HTTP_HEADERS of the GCP collector
GCP_HTTP_HEADERS == [ua |-> "RHSM/1.0", flavor |-> "Google"]

\* requests.get(url) with no headers argument
NO_HEADERS == [ua |-> NoHeader, flavor |-> NoHeader]

----------------------------------------------------------------------------
(* Values *)

Times == {t \in 0..MaxTime : t % TickStep = 0}

\* A token is known by who issued it to whom and when: "srv" is a token the
\* service issued to this collector, "ext" one it issued to another process.
NoToken == [src |-> "none", t |-> 0]

SrvToken(t) == [src |-> "srv", t |-> t]

ExtToken(t) == [src |-> "ext", t |-> t]

Bodies == {"docA", "docB"}

\* Answers of the metadata service
Ok(b) == [conn |-> TRUE, status |-> 200, body |-> b, tbody |-> NoToken]

OkToken(k) == [conn |-> TRUE, status |-> 200, body |-> "", tbody |-> k]

Refused == [conn |-> TRUE, status |-> 400, body |-> "error", tbody |-> NoToken]

ConnectionError == [conn |-> FALSE, status |-> 0, body |-> "", tbody |-> NoToken]

DocumentAnswers == {Ok(b) : b \in Bodies} \cup {Refused, ConnectionError}

TokenAnswers == {OkToken(SrvToken(now)), Refused, ConnectionError}

\* What an operation gives its caller: a document, None, or an exception
RetNone == [kind |-> "none", body |-> ""]

RetBody(b) == [kind |-> "body", body |-> b]

RetRaised == [kind |-> "raised", body |-> ""]

\* A request as the service sees it, with the answer it got
Request(method, url, headers, tok, ttl, answer) ==
    [method |-> method, url |-> url, ua |-> headers.ua, flavor |-> headers.flavor,
     token |-> tok, ttl |-> ttl, at |-> now,
     status |-> answer.status, conn |-> answer.conn, body |-> answer.body,
     tbody |-> answer.tbody]

----------------------------------------------------------------------------
(* The token cache file *)

\* JSON values of the two keys of the cache file
Missing == [k |-> "missing", v |-> 0]

JsonNull == [k |-> "null", v |-> 0]

JsonJunk == [k |-> "junk", v |-> 0]

\* str(self._token_ctime): the decimal text of a float
str(t) == [k |-> "num", v |-> t]

NoTokenKey == [k |-> "missing", v |-> NoToken]

TokenKey(k) == [k |-> "str", v |-> k]

NotJson == [kind |-> "notjson", ctime |-> Missing, token |-> NoTokenKey]

JsonScalar == [kind |-> "scalar", ctime |-> Missing, token |-> NoTokenKey]

JsonDict(c, k) == [kind |-> "dict", ctime |-> c, token |-> k]

\* Contents a damaged or foreign cache file can have
CorruptContents ==
    { NotJson, JsonScalar,
      JsonDict(Missing, TokenKey(ExtToken(0))),
      JsonDict(str(0), NoTokenKey),
      JsonDict(JsonJunk, TokenKey(ExtToken(0))),
      JsonDict(JsonNull, TokenKey(ExtToken(0))) }

NoFile == [exists |-> FALSE, mode |-> "none", content |-> NotJson]

\* Mode of a file that open(path, "w") creates: 0666 masked by the umask
CreateModes == {"0644", "0600"}

\* json.dump of {"ctime": str(self._token_ctime), "token": self._token}
token_cache_content == JsonDict(str(token_ctime), TokenKey(token))

\* Whether a complete ctime/token pair can be read from the file
HoldsToken(f) ==
    /\ f.exists
    /\ f.content.kind = "dict"
    /\ f.content.ctime.k = "num"
    /\ f.content.token.k = "str"

----------------------------------------------------------------------------
(* AWSCloudCollector *)

\* Faulty variant: the comparison with the expiry time is reversed
is_in_memory_cached_token_valid_reversed ==
    IF token = NoToken \/ token_ctime = NoTime
    THEN FALSE
    ELSE now >= token_ctime + CLOUD_PROVIDER_TOKEN_TTL

\* AWSCloudCollector._is_in_memory_cached_token_valid
is_in_memory_cached_token_valid ==
    IF token = NoToken \/ token_ctime = NoTime
    THEN FALSE
    ELSE now < token_ctime + CLOUD_PROVIDER_TOKEN_TTL

\* json.loads, the required keys and float(cache['ctime']) of
\* _get_token_from_cache_file, for content c: "none" when the function
\* returns None before it gets to the ctime, "raise" when an exception
\* leaves it, "ctime" when float() gave a number.
parse_cache(c) ==
    IF c.kind = "notjson" THEN "none"                  \* json.JSONDecodeError
    ELSE IF c.kind = "scalar" THEN "raise"             \* key not in cache: TypeError
    ELSE IF c.ctime.k = "missing" \/ c.token.k = "missing" THEN "none"
    ELSE IF c.ctime.k = "junk" THEN "none"             \* ValueError
    ELSE IF c.ctime.k = "null" THEN "raise"            \* TypeError
    ELSE "ctime"

Return(r) ==
    /\ pc' = "idle"
    /\ ret' = r

\* What the code makes of an answer: response.text when the status is 200,
\* None on any other status and on requests.ConnectionError
text_if_200(a) ==
    IF a.conn /\ a.status = 200 THEN RetBody(a.body) ELSE RetNone

\* AWSCloudCollector._get_metadata_from_cache
aws_get_metadata_from_cache == RetNone

\* No run of _get_token has returned yet, or the last one gave None or raised
NoResolved == [token |-> NoToken, at |-> NoTime, file |-> NoFile]

\* The runs of _get_token are not recorded
Unrecorded == [token |-> NoToken, at |-> NoTime - 1, file |-> NoFile]

\* The history of _get_token after a step: a step into
\* _get_metadata_from_server_imds_v2's request is the return of a token, a
\* step out of _get_token to the caller of the operation is None or an
\* exception
resolved_after ==
    IF resolved = Unrecorded THEN resolved
    ELSE IF pc # "imds_v2" /\ pc' = "imds_v2"
    THEN [token |-> held', at |-> now, file |-> cache_file']
    ELSE IF pc # "idle" /\ pc' = "idle" THEN NoResolved
    ELSE resolved

\* Entry of a public operation (the history of the previous one is dropped)
Begin(o) ==
    /\ pc = "idle"
    /\ op' = o
    /\ reqs' = <<>>
    /\ file_ops' = <<>>
    /\ entry' = [token |-> token, ctime |-> token_ctime]
    /\ held' = NoToken

\* Public get_metadata / get_signature: the cache first, then the server
\* Faulty variant: the server is asked although the cache gave a document
CacheThenServer_server_always(o, fromCache, server) ==
    /\ Begin(o)
    /\ pc' = server
    /\ ret' = RetNone

CacheThenServer(o, fromCache, server) ==
    /\ Begin(o)
    /\ IF fromCache # RetNone
       THEN Return(fromCache)
       ELSE pc' = server /\ ret' = RetNone

\* AWSCloudCollector.get_metadata
aws_get_metadata ==
    /\ CacheThenServer("aws_get_metadata", aws_get_metadata_from_cache, "imds_v1")
    /\ UNCHANGED <<now, token, token_ctime, cache_file>>
    /\ UNCHANGED gcp_vars
    /\ UNCHANGED <<base_vars, detector_vars>>
    /\ UNCHANGED race_vars
    /\ UNCHANGED hist_vars

\* Faulty variant: IMDSv2 is tried whatever IMDSv1 gave
after_imds_v1_always_v2(metadata) ==
    pc' = "get_token" /\ ret' = ret

\* _get_metadata_from_server after _get_metadata_from_server_imds_v1 gave
\* metadata: return it, or go on to IMDSv2
after_imds_v1(metadata) ==
    IF metadata # RetNone
    THEN Return(metadata)
    ELSE pc' = "get_token" /\ ret' = ret

get_metadata_from_server_imds_v1 ==
    /\ pc = "imds_v1"
    /\ \E a \in DocumentAnswers :
        /\ reqs' = Append(reqs, Request("GET", AWS_METADATA_URL, NO_HEADERS, NoToken, 0, a))
        /\ after_imds_v1(text_if_200(a))
    /\ UNCHANGED <<op>>
    /\ UNCHANGED aws_vars
    /\ UNCHANGED gcp_vars
    /\ UNCHANGED <<base_vars, detector_vars>>
    /\ UNCHANGED race_vars
    /\ UNCHANGED hist_vars

get_token ==
    /\ pc = "get_token"
    /\ IF is_in_memory_cached_token_valid
       THEN held' = token /\ pc' = "imds_v2"
       ELSE held' = held /\ pc' = "cache_file"
    /\ UNCHANGED <<now, token, token_ctime, cache_file, op, reqs, file_ops, entry, ret>>
    /\ UNCHANGED gcp_vars
    /\ UNCHANGED <<base_vars, detector_vars>>
    /\ UNCHANGED race_vars
    /\ resolved' = resolved_after

\* One access to TOKEN_CACHE_FILE: what was done, the file system error met
\* (if any), the content read and what the function gave back
FileOp(what, err, content, result) ==
    [what |-> what, err |-> err, content |-> content, result |-> result]

\* Faulty variant: the token is still taken at the very end of its TTL
cache_lookup_until_ttl(err, c) ==
    IF err = "open" THEN "raise"
    ELSE IF err = "read" THEN "none"
    ELSE IF parse_cache(c) # "ctime" THEN parse_cache(c)
    ELSE IF now <= c.ctime.v + CLOUD_PROVIDER_TOKEN_TTL THEN "token"
    ELSE "none"

\* Outcome of _get_token_from_cache_file on an existing file, under file
\* system error err: "raise" (an exception leaves the function), "none"
\* (None is returned) or "token" (the token of the file is returned)
cache_lookup(err, c) ==
    IF err = "open" THEN "raise"          \* open() is outside the try
    ELSE IF err = "read" THEN "none"      \* except OSError
    ELSE IF parse_cache(c) # "ctime" THEN parse_cache(c)
    ELSE IF now < c.ctime.v + CLOUD_PROVIDER_TOKEN_TTL THEN "token"
    ELSE "none"

\* self._token_ctime after _get_token_from_cache_file
ctime_after_lookup(err, c) ==
    IF err = "none" /\ parse_cache(c) = "ctime" THEN c.ctime.v ELSE token_ctime

\* _get_token_from_cache_file, and the `if token is None` of _get_token
get_token_from_cache_file ==
    /\ pc = "cache_file"
    /\ IF ~cache_file.exists
       THEN /\ pc' = "token_put"
            /\ UNCHANGED <<token_ctime, held, ret, file_ops>>
       ELSE \E err \in {"none", "open", "read"} :
              LET c == cache_file.content
                  r == cache_lookup(err, c)
              IN /\ file_ops' = Append(file_ops, FileOp("read", err, c, r))
                 /\ token_ctime' = ctime_after_lookup(err, c)
                 /\ CASE r = "raise" -> Return(RetRaised) /\ held' = held
                      [] r = "token" -> held' = c.token.v /\ pc' = "imds_v2" /\ ret' = ret
                      [] OTHER -> held' = held /\ pc' = "token_put" /\ ret' = ret
    /\ UNCHANGED <<now, token, cache_file, op, reqs, entry>>
    /\ UNCHANGED gcp_vars
    /\ UNCHANGED <<base_vars, detector_vars>>
    /\ UNCHANGED race_vars
    /\ resolved' = resolved_after

\* Faulty variant: the creation time is not taken at the fetch
get_token_from_server_keeps_ctime ==
    /\ pc = "token_put"
    /\ \E a \in TokenAnswers :
        /\ reqs' = Append(reqs, Request("PUT", AWS_TOKEN_URL, AWS_HTTP_HEADERS, NoToken,
                                        CLOUD_PROVIDER_TOKEN_TTL, a))
        /\ IF a.conn /\ a.status = 200
           THEN /\ token' = a.tbody
                /\ held' = a.tbody
                /\ pc' = "write_open"
                /\ ret' = ret
                /\ UNCHANGED token_ctime
           ELSE /\ Return(RetNone)
                /\ UNCHANGED <<token, token_ctime, held>>
    /\ UNCHANGED <<now, cache_file, op, file_ops, entry>>
    /\ UNCHANGED gcp_vars
    /\ UNCHANGED <<base_vars, detector_vars>>
    /\ UNCHANGED race_vars
    /\ resolved' = resolved_after

\* Faulty variant: the cache file is written whatever the PUT gave
get_token_from_server_writes_always ==
    /\ pc = "token_put"
    /\ \E a \in TokenAnswers :
        /\ reqs' = Append(reqs, Request("PUT", AWS_TOKEN_URL, AWS_HTTP_HEADERS, NoToken,
                                        CLOUD_PROVIDER_TOKEN_TTL, a))
        /\ IF a.conn /\ a.status = 200
           THEN /\ token' = a.tbody
                /\ token_ctime' = now
                /\ held' = a.tbody
           ELSE UNCHANGED <<token, token_ctime, held>>
        /\ pc' = "write_open"
        /\ ret' = ret
    /\ UNCHANGED <<now, cache_file, op, file_ops, entry>>
    /\ UNCHANGED gcp_vars
    /\ UNCHANGED <<base_vars, detector_vars>>
    /\ UNCHANGED race_vars
    /\ resolved' = resolved_after

\* _get_token_from_server up to the call of _write_token_to_cache_file
get_token_from_server ==
    /\ pc = "token_put"
    /\ \E a \in TokenAnswers :
        /\ reqs' = Append(reqs, Request("PUT", AWS_TOKEN_URL, AWS_HTTP_HEADERS, NoToken,
                                        CLOUD_PROVIDER_TOKEN_TTL, a))
        /\ IF a.conn /\ a.status = 200
           THEN /\ token' = a.tbody
                /\ token_ctime' = now
                /\ held' = a.tbody
                /\ pc' = "write_open"
                /\ ret' = ret
           ELSE /\ Return(RetNone)
                /\ UNCHANGED <<token, token_ctime, held>>
    /\ UNCHANGED <<now, cache_file, op, file_ops, entry>>
    /\ UNCHANGED gcp_vars
    /\ UNCHANGED <<base_vars, detector_vars>>
    /\ UNCHANGED race_vars
    /\ resolved' = resolved_after

\* _write_token_to_cache_file: open(TOKEN_CACHE_FILE, "w")
write_token_open ==
    /\ pc = "write_open"
    /\ token # NoToken        \* `if self._token is None: return None`
    /\ \E failed \in BOOLEAN :
        /\ file_ops' = Append(file_ops, FileOp("write", IF failed THEN "open" ELSE "none",
                                               token_cache_content,
                                               IF failed THEN "raise" ELSE "none"))
        /\ IF failed
           THEN /\ Return(RetRaised)
                /\ UNCHANGED cache_file
           ELSE /\ \E m \in CreateModes :
                     cache_file' = [exists |-> TRUE,
                                    mode |-> IF cache_file.exists THEN cache_file.mode ELSE m,
                                    content |-> NotJson]
                /\ pc' = "write_dump"
                /\ ret' = ret
    /\ UNCHANGED <<now, token, token_ctime, op, held, reqs, entry>>
    /\ UNCHANGED gcp_vars
    /\ UNCHANGED <<base_vars, detector_vars>>
    /\ UNCHANGED race_vars
    /\ resolved' = resolved_after

\* _write_token_to_cache_file: json.dump and the close of the file
write_token_dump ==
    /\ pc = "write_dump"
    /\ \E failed \in BOOLEAN :
        IF failed
        THEN /\ Return(RetRaised)
             /\ UNCHANGED cache_file
        ELSE /\ cache_file' = [cache_file EXCEPT !.exists = TRUE,
                                                 !.content = token_cache_content]
             /\ pc' = "write_chmod"
             /\ ret' = ret
    /\ UNCHANGED <<now, token, token_ctime, op, held, reqs, file_ops, entry>>
    /\ UNCHANGED gcp_vars
    /\ UNCHANGED <<base_vars, detector_vars>>
    /\ UNCHANGED race_vars
    /\ resolved' = resolved_after

\* _write_token_to_cache_file: os.chmod(TOKEN_CACHE_FILE, 0o600)
write_token_chmod ==
    /\ pc = "write_chmod"
    /\ \E failed \in BOOLEAN :
        IF failed
        THEN /\ Return(RetRaised)
             /\ UNCHANGED cache_file
        ELSE /\ cache_file' = [cache_file EXCEPT !.mode = "0600"]
             /\ pc' = "imds_v2"
             /\ ret' = ret
    /\ UNCHANGED <<now, token, token_ctime, op, held, reqs, file_ops, entry>>
    /\ UNCHANGED gcp_vars
    /\ UNCHANGED <<base_vars, detector_vars>>
    /\ UNCHANGED race_vars
    /\ resolved' = resolved_after

\* Faulty variant: a rejected token is replaced by a new one from the server
get_metadata_from_server_imds_v2_new_token ==
    /\ pc = "imds_v2"
    /\ \E a \in DocumentAnswers :
        /\ reqs' = Append(reqs, Request("GET", AWS_METADATA_URL, AWS_HTTP_HEADERS, held, 0, a))
        /\ IF a.conn /\ a.status # 200 /\ Len(reqs) < 4
           THEN pc' = "token_put" /\ ret' = ret
           ELSE Return(text_if_200(a))
    /\ UNCHANGED <<op>>
    /\ UNCHANGED aws_vars
    /\ UNCHANGED gcp_vars
    /\ UNCHANGED <<base_vars, detector_vars>>
    /\ UNCHANGED race_vars
    /\ UNCHANGED hist_vars

\* _get_metadata_from_server_imds_v2, after _get_token gave a token
get_metadata_from_server_imds_v2 ==
    /\ pc = "imds_v2"
    /\ \E a \in DocumentAnswers :
        /\ reqs' = Append(reqs, Request("GET", AWS_METADATA_URL, AWS_HTTP_HEADERS, held, 0, a))
        /\ Return(text_if_200(a))
    /\ UNCHANGED <<op>>
    /\ UNCHANGED aws_vars
    /\ UNCHANGED gcp_vars
    /\ UNCHANGED <<base_vars, detector_vars>>
    /\ UNCHANGED race_vars
    /\ UNCHANGED hist_vars

\* AWSCloudCollector._get_signature_from_cache_file
aws_get_signature_from_cache_file == RetNone

\* AWSCloudCollector.get_signature
aws_get_signature ==
    /\ CacheThenServer("aws_get_signature", aws_get_signature_from_cache_file, "signature_v1")
    /\ UNCHANGED <<now, token, token_ctime, cache_file>>
    /\ UNCHANGED gcp_vars
    /\ UNCHANGED <<base_vars, detector_vars>>
    /\ UNCHANGED race_vars
    /\ UNCHANGED hist_vars

\* Faulty variant: a failed IMDSv1 attempt is followed by the token exchange,
\* as it is for metadata
after_signature_imds_v1_then_token(signature) ==
    IF signature # RetNone
    THEN Return(signature)
    ELSE pc' = "get_token" /\ ret' = ret

\* get_signature after _get_signature_from_server_imds_v1 gave signature:
\* it is returned as it is, None included
after_signature_imds_v1(signature) == Return(signature)

get_signature_from_server_imds_v1 ==
    /\ pc = "signature_v1"
    /\ \E a \in DocumentAnswers :
        /\ reqs' = Append(reqs, Request("GET", AWS_SIGNATURE_URL, NO_HEADERS, NoToken, 0, a))
        /\ after_signature_imds_v1(text_if_200(a))
    /\ UNCHANGED <<op>>
    /\ UNCHANGED aws_vars
    /\ UNCHANGED gcp_vars
    /\ UNCHANGED <<base_vars, detector_vars>>
    /\ UNCHANGED race_vars
    /\ UNCHANGED hist_vars

----------------------------------------------------------------------------
(* Environment of the AWS collector *)

\* The clock advances between operations and while a request waits for its
\* answer, which is before a token is looked up or after it has been sent.
Tick ==
    /\ pc = "idle"
    /\ now + TickStep <= MaxTime
    /\ now' = now + TickStep
    /\ UNCHANGED <<token, token_ctime, cache_file, pc, op, held, reqs, file_ops, entry, ret>>
    /\ UNCHANGED gcp_vars
    /\ UNCHANGED <<base_vars, detector_vars>>
    /\ UNCHANGED race_vars
    /\ UNCHANGED hist_vars

\* Another collector process got a token of its own and cached it
OtherProcessWrite ==
    /\ cache_file' = [exists |-> TRUE, mode |-> "0600",
                      content |-> JsonDict(str(now), TokenKey(ExtToken(now)))]
    /\ UNCHANGED <<now, token, token_ctime, pc, op, held, reqs, file_ops, entry, ret>>
    /\ UNCHANGED gcp_vars
    /\ UNCHANGED <<base_vars, detector_vars>>
    /\ UNCHANGED race_vars
    /\ UNCHANGED hist_vars

\* The file is damaged or replaced by something that is no token cache
CorruptFile ==
    /\ cache_file.exists
    /\ \E c \in CorruptContents : cache_file' = [cache_file EXCEPT !.content = c]
    /\ UNCHANGED <<now, token, token_ctime, pc, op, held, reqs, file_ops, entry, ret>>
    /\ UNCHANGED gcp_vars
    /\ UNCHANGED <<base_vars, detector_vars>>
    /\ UNCHANGED race_vars
    /\ UNCHANGED hist_vars

----------------------------------------------------------------------------
(* GCPCloudCollector *)

\* Faulty variant: the document served last is kept and served again
gcp_get_metadata_from_cache_last ==
    IF op = "gcp_get_metadata" /\ ret.kind = "body" THEN ret ELSE RetNone

\* GCPCloudCollector._get_metadata_from_cache
gcp_get_metadata_from_cache == RetNone

\* GCPCloudCollector.get_metadata: CloudCollector.get_metadata
gcp_get_metadata ==
    /\ gcp_calls < MaxCalls
    /\ CacheThenServer("gcp_get_metadata", gcp_get_metadata_from_cache, "gcp_server")
    /\ gcp_calls' = gcp_calls + 1
    /\ UNCHANGED <<now, token, token_ctime, cache_file, gcp_fields, gcp_gets>>
    /\ UNCHANGED <<base_vars, detector_vars>>
    /\ UNCHANGED race_vars
    /\ UNCHANGED hist_vars

\* CloudCollector._get_data_from_server("token", CLOUD_PROVIDER_METADATA_URL)
get_data_from_server ==
    /\ pc = "gcp_server"
    /\ \E a \in DocumentAnswers :
        /\ reqs' = Append(reqs, Request("GET", GCP_METADATA_URL, GCP_HTTP_HEADERS, NoToken, 0, a))
        /\ Return(text_if_200(a))
    /\ gcp_gets' = gcp_gets + 1
    /\ UNCHANGED <<op, gcp_fields, gcp_calls>>
    /\ UNCHANGED aws_vars
    /\ UNCHANGED <<base_vars, detector_vars>>
    /\ UNCHANGED race_vars
    /\ UNCHANGED hist_vars

\* Faulty variant: the signature is asked of the server, as
\* CloudCollector.get_signature does
gcp_signature_from_server ==
    pc' = "gcp_server" /\ ret' = RetNone

\* Body of GCPCloudCollector.get_signature: return None
gcp_signature_body == Return(RetNone)

\* GCPCloudCollector.get_signature, which overrides CloudCollector.get_signature
gcp_get_signature ==
    /\ Begin("gcp_get_signature")
    /\ gcp_signature_body
    /\ UNCHANGED <<now, token, token_ctime, cache_file>>
    /\ UNCHANGED gcp_vars
    /\ UNCHANGED <<base_vars, detector_vars>>
    /\ UNCHANGED race_vars
    /\ UNCHANGED hist_vars

----------------------------------------------------------------------------
(* CloudCollector: a collector that keeps the get_metadata, get_signature   *)
(* and _get_*_from_server of the base class and supplies the two cache      *)
(* lookups, which the base class leaves to its subclasses.  What a lookup   *)
(* finds is the environment's choice.                                       *)

BASE_METADATA_URL == "CLOUD_PROVIDER_METADATA_URL"

BASE_SIGNATURE_URL == "CLOUD_PROVIDER_SIGNATURE_URL"

\* HTTP_HEADERS of the collector
BASE_HTTP_HEADERS == [ua |-> "RHSM/1.0", flavor |-> NoHeader]

\* What _get_metadata_from_cache or _get_signature_from_cache_file can give
CacheAnswers == {RetNone} \cup {RetBody(b) : b \in Bodies}

\* CloudCollector.get_metadata
base_get_metadata ==
    /\ \E c \in CacheAnswers :
        /\ CacheThenServer("base_get_metadata", c, "base_server")
        /\ cached' = c
    /\ UNCHANGED <<now, token, token_ctime, cache_file>>
    /\ UNCHANGED <<gcp_vars, detector_vars>>
    /\ UNCHANGED race_vars
    /\ UNCHANGED hist_vars

\* CloudCollector.get_signature
base_get_signature ==
    /\ \E c \in CacheAnswers :
        /\ CacheThenServer("base_get_signature", c, "base_server")
        /\ cached' = c
    /\ UNCHANGED <<now, token, token_ctime, cache_file>>
    /\ UNCHANGED <<gcp_vars, detector_vars>>
    /\ UNCHANGED race_vars
    /\ UNCHANGED hist_vars

\* The URL _get_metadata_from_server or _get_signature_from_server passes on
base_url == IF op = "base_get_metadata" THEN BASE_METADATA_URL ELSE BASE_SIGNATURE_URL

\* Faulty variant: the GET is tried again after a connection failure
base_get_data_from_server_retry ==
    /\ pc = "base_server"
    /\ \E a \in DocumentAnswers :
        /\ reqs' = Append(reqs, Request("GET", base_url, BASE_HTTP_HEADERS, NoToken, 0, a))
        /\ IF a.conn THEN Return(text_if_200(a)) ELSE UNCHANGED <<pc, ret>>
    /\ UNCHANGED op
    /\ UNCHANGED <<aws_vars, gcp_vars, base_vars, detector_vars>>
    /\ UNCHANGED race_vars
    /\ UNCHANGED hist_vars

\* CloudCollector._get_data_from_server(data_type, url)
base_get_data_from_server ==
    /\ pc = "base_server"
    /\ \E a \in DocumentAnswers :
        /\ reqs' = Append(reqs, Request("GET", base_url, BASE_HTTP_HEADERS, NoToken, 0, a))
        /\ Return(text_if_200(a))
    /\ UNCHANGED op
    /\ UNCHANGED <<aws_vars, gcp_vars, base_vars, detector_vars>>
    /\ UNCHANGED race_vars
    /\ UNCHANGED hist_vars

----------------------------------------------------------------------------
(* Cloud detectors: facts, strings and the operations of str they use *)

\* A Python str is the sequence of its characters

KW_amazon == <<"a", "m", "a", "z", "o", "n">>

KW_Amazon_EC2 == <<"A", "m", "a", "z", "o", "n", " ", "E", "C", "2">>

KW_aws == <<"a", "w", "s">>

KW_kvm == <<"k", "v", "m">>

KW_xen == <<"x", "e", "n">>

KW_ec2 == <<"e", "c", "2">>

KW_amazon_ec2 == <<"a", "m", "a", "z", "o", "n", " ", "e", "c", "2">>

KW_google == <<"g", "o", "o", "g", "l", "e">>

KW_gcp == <<"g", "c", "p">>

\* Fact values the model draws from

V_kvm == <<"k", "v", "m">>

V_xen == <<"x", "e", "n">>

V_xen_aws == <<"x", "e", "n", ",", " ", "a", "w", "s">>

V_kvm_xen == <<"k", "v", "m", ",", " ", "x", "e", "n">>

V_amazon == <<"a", "m", "a", "z", "o", "n">>

V_Amazon == <<"A", "m", "a", "z", "o", "n">>

V_1_0 == <<"1", ".", "0">>

V_Google == <<"G", "o", "o", "g", "l", "e">>

V_Amazon_EC2 == <<"A", "m", "a", "z", "o", "n", " ", "E", "C", "2">>

V_AWS == <<"A", "W", "S">>

V_Foo_Company == <<"F", "o", "o", " ", "C", "o", "m", "p", "a", "n", "y">>

V_EC2_uuid == <<"E", "C", "2", "2", "6", "3", "F", "8">>

V_other_uuid == <<"6", "e", "c", "2">>

V_Google_Cloud == <<"G", "o", "o", "g", "l", "e", " ", "C", "l", "o", "u", "d">>

V_gcp_tag == <<"g", "c", "p", "-", "1">>

V_aws_tag == <<"a", "w", "s">>

ascii_uppercase == <<"A", "B", "C", "D", "E", "F", "G", "H", "I", "J", "K", "L", "M", "N", "O", "P", "Q", "R", "S", "T", "U", "V", "W", "X", "Y", "Z">>

ascii_lowercase == <<"a", "b", "c", "d", "e", "f", "g", "h", "i", "j", "k", "l", "m", "n", "o", "p", "q", "r", "s", "t", "u", "v", "w", "x", "y", "z">>

\* str.lower(), character by character
lower_char(c) ==
    IF \E i \in 1..Len(ascii_uppercase) : ascii_uppercase[i] = c
    THEN ascii_lowercase[CHOOSE i \in 1..Len(ascii_uppercase) : ascii_uppercase[i] = c]
    ELSE c

lower(s) == [i \in 1..Len(s) |-> lower_char(s[i])]

\* sub in s, for two str
contains(s, sub) ==
    \E i \in 0..(Len(s) - Len(sub)) : SubSeq(s, i + 1, i + Len(sub)) = sub

\* s.startswith(prefix)
startswith(s, prefix) ==
    Len(prefix) <= Len(s) /\ SubSeq(s, 1, Len(prefix)) = prefix

\* Values of hw_info: a str, a bool, or no entry under the key
Str(s) == [type |-> "str", s |-> s, b |-> FALSE]

Bool(b) == [type |-> "bool", s |-> <<>>, b |-> b]

Absent == [type |-> "absent", s |-> <<>>, b |-> FALSE]

Keys == {"virt.is_guest", "virt.host_type", "dmi.bios.version", "dmi.bios.vendor",
         "dmi.system.uuid", "dmi.chassis.asset_tag"}

\* key in hw_info
has(f, k) == f[k].type # "absent"

\* type(hw_info[key]) == str
is_str(f, k) == f[k].type = "str"

\* An empty hw_info
NoFacts == [k \in Keys |-> Absent]

\* The facts the fact collectors and the tests give: virt.is_guest is a bool,
\* the virt-what and dmidecode facts the detectors name are str, any other
\* fact is a str or not
GuestValues == {Absent, Bool(TRUE), Bool(FALSE)}

HostTypeValues == {Absent, Str(V_kvm), Str(V_xen), Str(V_xen_aws), Str(V_kvm_xen)}

BiosVersionValues == {Absent, Str(V_amazon), Str(V_Amazon), Str(V_1_0), Str(V_Google)}

BiosVendorValues == {Absent, Str(V_Amazon_EC2), Str(V_AWS), Str(V_Google), Str(V_Foo_Company)}

SystemUuidValues == {Absent, Str(V_EC2_uuid), Str(V_other_uuid)}

AssetTagValues == {Absent, Str(V_Google_Cloud), Str(V_gcp_tag), Str(V_aws_tag), Bool(TRUE)}

FactSet(guest, host, version, vendor, uuid, tag) ==
    [k \in Keys |->
        IF k = "virt.is_guest" THEN guest
        ELSE IF k = "virt.host_type" THEN host
        ELSE IF k = "dmi.bios.version" THEN version
        ELSE IF k = "dmi.bios.vendor" THEN vendor
        ELSE IF k = "dmi.system.uuid" THEN uuid
        ELSE tag]

FactSets ==
    {FactSet(g, h, ve, vn, u, t) :
        g \in GuestValues, h \in HostTypeValues, ve \in BiosVersionValues,
        vn \in BiosVendorValues, u \in SystemUuidValues, t \in AssetTagValues}

\* Any mapping from the keys to str or bool values: a bool may stand under
\* every key
AnyFactSets ==
    {FactSet(g, h, ve, vn, u, t) :
        g \in GuestValues,
        h \in HostTypeValues \cup {Bool(TRUE)},
        ve \in BiosVersionValues \cup {Bool(TRUE)},
        vn \in BiosVendorValues \cup {Bool(TRUE)},
        u \in SystemUuidValues \cup {Bool(TRUE)},
        t \in AssetTagValues}

\* What a detector function gives: a value, or an exception
Gives(v) == [raised |-> FALSE, v |-> v]

RaisedBool == [raised |-> TRUE, v |-> FALSE]

RaisedFloat == [raised |-> TRUE, v |-> 0]

RaisedList == [raised |-> TRUE, v |-> <<>>]

\* CloudDetector.is_vm: virt.is_guest is in hw_info and is True
is_vm(f) == has(f, "virt.is_guest") /\ f["virt.is_guest"].type = "bool" /\ f["virt.is_guest"].b

\* key in hw_info and sub in hw_info[key]: True, False, or TypeError when the
\* value is no str
key_contains(f, k, sub) ==
    IF ~has(f, k) THEN Gives(FALSE)
    ELSE IF ~is_str(f, k) THEN RaisedBool
    ELSE Gives(contains(f[k].s, sub))

\* key in hw_info and sub in hw_info[key].lower(): AttributeError when the
\* value is no str
key_lower_contains(f, k, sub) ==
    IF ~has(f, k) THEN Gives(FALSE)
    ELSE IF ~is_str(f, k) THEN RaisedBool
    ELSE Gives(contains(lower(f[k].s), sub))

\* A chain of `if test: return True`, closed by `return False`: the first
\* test that is True or raises decides
first_true(tests) ==
    IF \E i \in 1..Len(tests) : tests[i] # Gives(FALSE)
    THEN tests[CHOOSE i \in 1..Len(tests) :
                  /\ tests[i] # Gives(FALSE)
                  /\ \A j \in 1..(i - 1) : tests[j] = Gives(FALSE)]
    ELSE Gives(FALSE)

----------------------------------------------------------------------------
(* AWSCloudDetector *)

\* Faulty variant: the sign of the KVM systems, dmi.bios.vendor, is left out
aws_is_running_on_cloud_xen_only(f) ==
    IF ~is_vm(f) THEN Gives(FALSE)
    ELSE first_true(<<key_contains(f, "dmi.bios.version", KW_amazon),
                      key_contains(f, "virt.host_type", KW_aws)>>)

\* AWSCloudDetector.is_running_on_cloud
aws_is_running_on_cloud(f) ==
    IF ~is_vm(f) THEN Gives(FALSE)
    ELSE first_true(<<key_contains(f, "dmi.bios.version", KW_amazon),
                      key_contains(f, "dmi.bios.vendor", KW_Amazon_EC2),
                      key_contains(f, "virt.host_type", KW_aws)>>)

\* Faulty variant: two ifs in place of if/elif
aws_hypervisor_tenths_both(f) ==
    (IF contains(f["virt.host_type"].s, KW_kvm) THEN 3 ELSE 0)
    + (IF contains(f["virt.host_type"].s, KW_xen) THEN 2 ELSE 0)

\* The if/elif over virt.host_type, in tenths: 0.3 for kvm, else 0.2 for xen
\* (nothing when the key is absent: Absent holds the empty sequence)
aws_hypervisor_tenths(f) ==
    IF contains(f["virt.host_type"].s, KW_kvm) THEN 3
    ELSE IF contains(f["virt.host_type"].s, KW_xen) THEN 2
    ELSE 0

\* 0.1 when dmi.system.uuid.lower() starts with 'ec2'
aws_uuid_tenths(f) ==
    IF has(f, "dmi.system.uuid") /\ startswith(lower(f["dmi.system.uuid"].s), KW_ec2)
    THEN 1 ELSE 0

\* hw_item.lower() of the values the scan does not skip
scanned(f) == {lower(f[k].s) : k \in {key \in Keys : is_str(f, key)}}

\* The keyword scan of the AWS detector: every value sets the flag of the
\* first keyword of the if/elif chain it holds
found_amazon_ec2(f) == \E v \in scanned(f) : contains(v, KW_amazon_ec2)

found_amazon(f) ==
    \E v \in scanned(f) : ~contains(v, KW_amazon_ec2) /\ contains(v, KW_amazon)

found_aws(f) ==
    \E v \in scanned(f) :
        ~contains(v, KW_amazon_ec2) /\ ~contains(v, KW_amazon) /\ contains(v, KW_aws)

aws_keyword_tenths(f) ==
    (IF found_amazon_ec2(f) THEN 3 ELSE 0)
    + (IF found_amazon(f) THEN 2 ELSE 0)
    + (IF found_aws(f) THEN 1 ELSE 0)

\* AWSCloudDetector.is_likely_running_on_cloud; the probability is counted
\* in tenths
aws_is_likely_running_on_cloud(f) ==
    IF ~is_vm(f) THEN Gives(0)
    ELSE IF has(f, "virt.host_type") /\ ~is_str(f, "virt.host_type") THEN RaisedFloat
    ELSE IF has(f, "dmi.system.uuid") /\ ~is_str(f, "dmi.system.uuid") THEN RaisedFloat
    ELSE Gives(aws_hypervisor_tenths(f) + aws_uuid_tenths(f) + aws_keyword_tenths(f))

----------------------------------------------------------------------------
(* GCPCloudDetector *)

\* GCPCloudDetector.is_running_on_cloud
gcp_is_running_on_cloud(f) ==
    IF ~is_vm(f) THEN Gives(FALSE)
    ELSE first_true(<<key_lower_contains(f, "dmi.bios.vendor", KW_google)>>)

\* Faulty variant: the hypervisor looked for is Xen
gcp_hypervisor_tenths_xen(f) ==
    IF contains(f["virt.host_type"].s, KW_xen) THEN 3 ELSE 0

\* 0.3 when virt.host_type holds 'kvm' (nothing when the key is absent)
gcp_hypervisor_tenths(f) ==
    IF contains(f["virt.host_type"].s, KW_kvm) THEN 3 ELSE 0

\* Faulty variant: the values are read as they are written, not lowered
found_google_as_written(f) ==
    \E k \in {key \in Keys : is_str(f, key)} : contains(f[k].s, KW_google)

\* The keyword scan of the GCP detector
found_google(f) == \E v \in scanned(f) : contains(v, KW_google)

found_gcp(f) == \E v \in scanned(f) : ~contains(v, KW_google) /\ contains(v, KW_gcp)

\* Faulty variant: the weight of the google keyword is left out
gcp_keyword_tenths_gcp_only(f) == IF found_gcp(f) THEN 1 ELSE 0

gcp_keyword_tenths(f) ==
    (IF found_google(f) THEN 3 ELSE 0) + (IF found_gcp(f) THEN 1 ELSE 0)

\* Faulty variant: the facts are weighed without asking is_vm first
gcp_is_likely_running_on_cloud_any_host(f) ==
    IF has(f, "virt.host_type") /\ ~is_str(f, "virt.host_type") THEN RaisedFloat
    ELSE Gives(gcp_hypervisor_tenths(f) + gcp_keyword_tenths(f))

\* GCPCloudDetector.is_likely_running_on_cloud; the probability is counted
\* in tenths
gcp_is_likely_running_on_cloud(f) ==
    IF ~is_vm(f) THEN Gives(0)
    ELSE IF has(f, "virt.host_type") /\ ~is_str(f, "virt.host_type") THEN RaisedFloat
    ELSE Gives(gcp_hypervisor_tenths(f) + gcp_keyword_tenths(f))

----------------------------------------------------------------------------
(* detect_cloud_provider over the detectors above.  The Azure detector is   *)
(* no part of this model.                                                   *)

\* The detectors in the order they are registered and asked
CLOUD_DETECTORS == <<"aws", "gcp">>

is_running_on_cloud(id, f) ==
    IF id = "aws" THEN aws_is_running_on_cloud(f) ELSE gcp_is_running_on_cloud(f)

is_likely_running_on_cloud(id, f) ==
    IF id = "aws" THEN aws_is_likely_running_on_cloud(f)
    ELSE gcp_is_likely_running_on_cloud(f)

\* The providers with a strong sign, in the order of CLOUD_DETECTORS
strong_signs(f) ==
    LET detects(id) == is_running_on_cloud(id, f).v
    IN  SelectSeq(CLOUD_DETECTORS, detects)

\* The providers with a probability above 0.0, in the order of CLOUD_DETECTORS
heuristics(f) ==
    LET likely(id) == is_likely_running_on_cloud(id, f).v > 0
    IN  SelectSeq(CLOUD_DETECTORS, likely)

\* list.sort(key=probability, reverse=True): highest probability first,
\* equal probabilities in the order they had
RECURSIVE sorted_by_probability(_, _)
sorted_by_probability(ids, f) ==
    IF ids = <<>> THEN <<>>
    ELSE LET p(i) == is_likely_running_on_cloud(ids[i], f).v
             best == CHOOSE i \in 1..Len(ids) :
                        /\ \A j \in 1..Len(ids) : p(j) <= p(i)
                        /\ \A j \in 1..(i - 1) : p(j) < p(i)
             rest == [k \in 1..(Len(ids) - 1) |-> IF k < best THEN ids[k] ELSE ids[k + 1]]
         IN  <<ids[best]>> \o sorted_by_probability(rest, f)

\* detect_cloud_provider on the facts f: the providers with a strong sign
\* when there is one, the providers of the heuristics by probability when
\* there is none; an exception of a detector function is not caught
cloud_list(f) ==
    IF \E i \in 1..Len(CLOUD_DETECTORS) : is_running_on_cloud(CLOUD_DETECTORS[i], f).raised
    THEN RaisedList
    ELSE IF strong_signs(f) # <<>> THEN Gives(strong_signs(f))
    ELSE IF \E i \in 1..Len(CLOUD_DETECTORS) :
                is_likely_running_on_cloud(CLOUD_DETECTORS[i], f).raised
    THEN RaisedList
    ELSE Gives(sorted_by_probability(heuristics(f), f))

\* The facts the tests of detect_cloud_provider hand to it
test_detect_cloud_provider_aws ==
    FactSet(Bool(TRUE), Str(V_kvm), Absent, Str(V_Amazon_EC2), Absent, Absent)

test_detect_cloud_provider_aws_heuristics ==
    FactSet(Bool(TRUE), Str(V_kvm), Str(V_1_0), Str(V_AWS), Absent, Absent)

test_detect_cloud_provider_gcp ==
    FactSet(Bool(TRUE), Str(V_kvm), Str(V_Google), Str(V_Google), Absent, Absent)

test_detect_cloud_provider_gcp_heuristics ==
    FactSet(Bool(TRUE), Str(V_kvm), Str(V_1_0), Str(V_Foo_Company), Absent,
            Str(V_Google_Cloud))

----------------------------------------------------------------------------
(* The detectors at work on hw_info *)

\* No detector function has been called
NotDetected ==
    [by |-> "none", is_vm |-> FALSE, running |-> Gives(FALSE), likely |-> Gives(0),
     clouds |-> Gives(<<>>)]

\* An AWSCloudDetector built with hw_info is asked its three questions
AWSCloudDetector ==
    /\ detected' = [by |-> "aws", is_vm |-> is_vm(hw_info),
                    running |-> aws_is_running_on_cloud(hw_info),
                    likely |-> aws_is_likely_running_on_cloud(hw_info),
                    clouds |-> Gives(<<>>)]
    /\ UNCHANGED <<pc, op, reqs, ret, hw_info>>
    /\ UNCHANGED <<aws_vars, gcp_vars, base_vars>>
    /\ UNCHANGED race_vars
    /\ UNCHANGED hist_vars

\* A GCPCloudDetector built with hw_info is asked its three questions
GCPCloudDetector ==
    /\ detected' = [by |-> "gcp", is_vm |-> is_vm(hw_info),
                    running |-> gcp_is_running_on_cloud(hw_info),
                    likely |-> gcp_is_likely_running_on_cloud(hw_info),
                    clouds |-> Gives(<<>>)]
    /\ UNCHANGED <<pc, op, reqs, ret, hw_info>>
    /\ UNCHANGED <<aws_vars, gcp_vars, base_vars>>
    /\ UNCHANGED race_vars
    /\ UNCHANGED hist_vars

\* detect_cloud_provider() with hw_info as the collected facts
detect_cloud_provider ==
    /\ detected' = [by |-> "all", is_vm |-> is_vm(hw_info),
                    running |-> Gives(FALSE), likely |-> Gives(0),
                    clouds |-> cloud_list(hw_info)]
    /\ UNCHANGED <<pc, op, reqs, ret, hw_info>>
    /\ UNCHANGED <<aws_vars, gcp_vars, base_vars>>
    /\ UNCHANGED race_vars
    /\ UNCHANGED hist_vars

----------------------------------------------------------------------------
(* Specifications *)

----------------------------------------------------------------------------
(* Two collector processes on one token cache file.  Each process is a     *)
(* new AWSCloudCollector inside _get_token: no token in memory, so it looks *)
(* into the cache file and, when that gives nothing, asks the server and   *)
(* writes the file.  The file is a sequence of positions; the data of      *)
(* json.dump is buffered and reaches the file in one piece when the `with` *)
(* block closes it, at the writer's own offset 0.                          *)

Procs == {1, 2}

\* Largest length of the text json.dump produces (str(time.time()) has no
\* fixed number of digits), in positions of the file
MaxContentLen == 3

ContentLens == 2..MaxContentLen

\* The token the server hands process p at time t
ProcToken(p, t) == [src |-> IF p = 1 THEN "p1" ELSE "p2", t |-> t]

NoProcToken == [token |-> NoToken, ctime |-> NoTime, len |-> 0]

NoRead == [result |-> "unread", content |-> NotJson, at |-> NoTime]

\* The text process p hands to json.dump, position by position
content_bytes(p) == [i \in 1..proc_token[p].len |-> [by |-> p, pos |-> i]]

\* What a writer with data w at offset 0 leaves of a file holding b:
\* its own data, then whatever of b lies beyond them
overwrite(b, w) ==
    IF Len(b) > Len(w) THEN w \o SubSeq(b, Len(w) + 1, Len(b)) ELSE w

\* json.loads of the text b: the dict some process dumped when b is exactly
\* its text; an empty text and a text with a foreign tail are no JSON
loads(b) ==
    IF \E p \in Procs : proc_token[p].len > 0 /\ b = content_bytes(p)
    THEN LET p == CHOOSE q \in Procs : proc_token[q].len > 0 /\ b = content_bytes(q)
         IN  JsonDict(str(proc_token[p].ctime), TokenKey(proc_token[p].token))
    ELSE NotJson

\* _get_token_from_cache_file of process p: os.path.exists
get_token_from_cache_file_exists(p) ==
    /\ proc_pc[p] = "cache_file"
    /\ proc_pc' = [proc_pc EXCEPT ![p] = IF race_file.exists THEN "read" ELSE "token_put"]
    /\ UNCHANGED <<race_file, proc_token, proc_read, last_writer>>
    /\ UNCHANGED <<now, token, token_ctime, cache_file, pc, op, held, reqs, file_ops,
                   entry, ret>>
    /\ UNCHANGED <<gcp_vars, base_vars, detector_vars, hist_vars>>

\* _get_token_from_cache_file of process p: open, read, and what is made of
\* the text read
get_token_from_cache_file_read(p) ==
    /\ proc_pc[p] = "read"
    /\ LET c == loads(race_file.bytes)
           r == cache_lookup("none", c)
       IN  /\ proc_read' = [proc_read EXCEPT ![p] = [result |-> r, content |-> c, at |-> now]]
           /\ proc_pc' = [proc_pc EXCEPT ![p] = IF r = "none" THEN "token_put" ELSE "done"]
    /\ UNCHANGED <<race_file, proc_token, last_writer>>
    /\ UNCHANGED <<now, token, token_ctime, cache_file, pc, op, held, reqs, file_ops,
                   entry, ret>>
    /\ UNCHANGED <<gcp_vars, base_vars, detector_vars, hist_vars>>

\* _get_token_from_server of process p
get_token_from_server_of(p) ==
    /\ proc_pc[p] = "token_put"
    /\ \E a \in {OkToken(ProcToken(p, now)), Refused, ConnectionError} :
         IF a.conn /\ a.status = 200
         THEN /\ \E n \in ContentLens :
                   proc_token' = [proc_token EXCEPT
                                     ![p] = [token |-> a.tbody, ctime |-> now, len |-> n]]
              /\ proc_pc' = [proc_pc EXCEPT ![p] = "write_open"]
         ELSE /\ proc_pc' = [proc_pc EXCEPT ![p] = "done"]
              /\ UNCHANGED proc_token
    /\ UNCHANGED <<race_file, proc_read, last_writer>>
    /\ UNCHANGED <<now, token, token_ctime, cache_file, pc, op, held, reqs, file_ops,
                   entry, ret>>
    /\ UNCHANGED <<gcp_vars, base_vars, detector_vars, hist_vars>>

\* _write_token_to_cache_file of process p: open(TOKEN_CACHE_FILE, "w")
\* creates or truncates the file
write_token_open_of(p) ==
    /\ proc_pc[p] = "write_open"
    /\ \E m \in CreateModes :
         race_file' = [exists |-> TRUE,
                       mode |-> IF race_file.exists THEN race_file.mode ELSE m,
                       bytes |-> <<>>]
    /\ proc_pc' = [proc_pc EXCEPT ![p] = "write_dump"]
    /\ UNCHANGED <<proc_token, proc_read, last_writer>>
    /\ UNCHANGED <<now, token, token_ctime, cache_file, pc, op, held, reqs, file_ops,
                   entry, ret>>
    /\ UNCHANGED <<gcp_vars, base_vars, detector_vars, hist_vars>>

\* _write_token_to_cache_file of process p: json.dump and the close
write_token_dump_of(p) ==
    /\ proc_pc[p] = "write_dump"
    /\ race_file' = [race_file EXCEPT !.bytes = overwrite(race_file.bytes, content_bytes(p))]
    /\ last_writer' = p
    /\ proc_pc' = [proc_pc EXCEPT ![p] = "write_chmod"]
    /\ UNCHANGED <<proc_token, proc_read>>
    /\ UNCHANGED <<now, token, token_ctime, cache_file, pc, op, held, reqs, file_ops,
                   entry, ret>>
    /\ UNCHANGED <<gcp_vars, base_vars, detector_vars, hist_vars>>

\* _write_token_to_cache_file of process p: os.chmod
write_token_chmod_of(p) ==
    /\ proc_pc[p] = "write_chmod"
    /\ race_file' = [race_file EXCEPT !.mode = "0600"]
    /\ proc_pc' = [proc_pc EXCEPT ![p] = "done"]
    /\ UNCHANGED <<proc_token, proc_read, last_writer>>
    /\ UNCHANGED <<now, token, token_ctime, cache_file, pc, op, held, reqs, file_ops,
                   entry, ret>>
    /\ UNCHANGED <<gcp_vars, base_vars, detector_vars, hist_vars>>

\* The collectors are constructed and no operation has run
Constructed ==
    /\ now = 0
    /\ token = NoToken
    /\ token_ctime = NoTime
    /\ cache_file = NoFile
    /\ pc = "idle"
    /\ op = "none"
    /\ held = NoToken
    /\ reqs = <<>>
    /\ file_ops = <<>>
    /\ entry = [token |-> NoToken, ctime |-> NoTime]
    /\ ret = RetNone
    /\ gcp_fields = [metadata |-> "None", signature |-> "None"]
    /\ gcp_calls = 0
    /\ gcp_gets = 0
    /\ cached = RetNone
    /\ detected = NotDetected
    /\ race_file = [exists |-> FALSE, mode |-> "none", bytes |-> <<>>]
    /\ proc_pc = [p \in Procs |-> "cache_file"]
    /\ proc_token = [p \in Procs |-> NoProcToken]
    /\ proc_read = [p \in Procs |-> NoRead]
    /\ last_writer = 0

Init ==
    /\ Constructed
    /\ hw_info = NoFacts
    /\ resolved = Unrecorded

\* The same, with the runs of _get_token recorded
InitResolve ==
    /\ Constructed
    /\ hw_info = NoFacts
    /\ resolved = NoResolved

\* A detector is built with facts as the fact collectors give them
InitDetect ==
    /\ Constructed
    /\ hw_info \in FactSets
    /\ resolved = Unrecorded

\* A detector is built with any mapping of str and bool values
InitDetectAny ==
    /\ Constructed
    /\ hw_info \in AnyFactSets
    /\ resolved = Unrecorded

Next ==
    \/ aws_get_metadata
    \/ get_metadata_from_server_imds_v1
    \/ get_token
    \/ get_token_from_cache_file
    \/ get_token_from_server
    \/ write_token_open
    \/ write_token_dump
    \/ write_token_chmod
    \/ get_metadata_from_server_imds_v2
    \/ aws_get_signature
    \/ get_signature_from_server_imds_v1
    \/ Tick
    \/ OtherProcessWrite
    \/ CorruptFile

\* The AWS collector and its environment
Spec == Init /\ [][Next]_vars

\* get_metadata of the AWS collector called again and again, with the runs
\* of _get_token recorded
NextResolve ==
    \/ aws_get_metadata
    \/ get_metadata_from_server_imds_v1
    \/ get_token
    \/ get_token_from_cache_file
    \/ get_token_from_server
    \/ write_token_open
    \/ write_token_dump
    \/ write_token_chmod
    \/ get_metadata_from_server_imds_v2
    \/ Tick
    \/ OtherProcessWrite
    \/ CorruptFile

SpecResolve == InitResolve /\ [][NextResolve]_vars

NextGCP ==
    \/ gcp_get_metadata
    \/ get_data_from_server
    \/ gcp_get_signature
    \/ Tick

\* The GCP collector and its environment
SpecGCP == Init /\ [][NextGCP]_vars

NextBase ==
    \/ base_get_metadata
    \/ base_get_signature
    \/ base_get_data_from_server
    \/ Tick

\* A collector built on the base class operations, and its environment
SpecBase == Init /\ [][NextBase]_vars

NextDetect ==
    \/ AWSCloudDetector
    \/ GCPCloudDetector
    \/ detect_cloud_provider

\* The detectors on the facts of one host
SpecDetect == InitDetect /\ [][NextDetect]_vars

\* The detectors on any mapping handed to them
SpecDetectAny == InitDetectAny /\ [][NextDetect]_vars

NextRace ==
    \/ \E p \in Procs : get_token_from_cache_file_exists(p)
    \/ \E p \in Procs : get_token_from_cache_file_read(p)
    \/ \E p \in Procs : get_token_from_server_of(p)
    \/ \E p \in Procs : write_token_open_of(p)
    \/ \E p \in Procs : write_token_dump_of(p)
    \/ \E p \in Procs : write_token_chmod_of(p)
    \/ Tick

\* Two processes refreshing the token on one cache file
SpecRace == Init /\ [][NextRace]_vars

----------------------------------------------------------------------------
(* get_metadata of the AWS collector called again and again against a      *)
(* service that refuses IMDSv1, answers every token PUT with 200 and       *)
(* serves the document for exactly the tokens it issued that are younger   *)
(* than the TTL, on a file system that does not fail, with no other        *)
(* process on the cache file.                                              *)

\* A collector that has run before: no token in memory or one fetched at
\* time 0, and any cache file, sound or damaged, left from before
InitFetch ==
    /\ now = 0
    /\ \E k \in {NoToken, SrvToken(0)} :
          /\ token = k
          /\ token_ctime = IF k = NoToken THEN NoTime ELSE 0
    /\ cache_file \in {NoFile}
           \cup {[exists |-> TRUE, mode |-> "0600", content |-> c] :
                    c \in CorruptContents
                          \cup {JsonDict(str(0), TokenKey(k)) : k \in {SrvToken(0), ExtToken(0)}}}
    /\ pc = "idle"
    /\ op = "none"
    /\ held = NoToken
    /\ reqs = <<>>
    /\ file_ops = <<>>
    /\ entry = [token |-> NoToken, ctime |-> NoTime]
    /\ ret = RetNone
    /\ gcp_fields = [metadata |-> "None", signature |-> "None"]
    /\ gcp_calls = 0
    /\ gcp_gets = 0
    /\ cached = RetNone
    /\ detected = NotDetected
    /\ hw_info = NoFacts
    /\ race_file = [exists |-> FALSE, mode |-> "none", bytes |-> <<>>]
    /\ proc_pc = [p \in Procs |-> "cache_file"]
    /\ proc_token = [p \in Procs |-> NoProcToken]
    /\ proc_read = [p \in Procs |-> NoRead]
    /\ last_writer = 0
    /\ resolved = Unrecorded

\* The service serves the document for token k at the present time
Accepted(k) == k.src = "srv" /\ now < k.t + CLOUD_PROVIDER_TOKEN_TTL

\* The IMDSv1 GET, refused
imds_v1_refused ==
    /\ get_metadata_from_server_imds_v1
    /\ reqs'[Len(reqs')].conn /\ reqs'[Len(reqs')].status # 200

\* The look into the cache file, with no file system error
cache_file_looked_up ==
    /\ get_token_from_cache_file
    /\ \A i \in 1..Len(file_ops') : file_ops'[i].err = "none"

\* The token PUT, answered 200
token_put_answered ==
    /\ get_token_from_server
    /\ reqs'[Len(reqs')].conn /\ reqs'[Len(reqs')].status = 200

\* The three steps of the cache write, none failing
token_written ==
    /\ write_token_open \/ write_token_dump \/ write_token_chmod
    /\ pc' # "idle"

\* The GET with token, served for an accepted token and refused otherwise
imds_v2_served ==
    /\ get_metadata_from_server_imds_v2
    /\ reqs'[Len(reqs')].conn
    /\ reqs'[Len(reqs')].status = 200 <=> Accepted(held)

\* The steps of the collector
FetchStep ==
    \/ aws_get_metadata
    \/ imds_v1_refused
    \/ get_token
    \/ cache_file_looked_up
    \/ token_put_answered
    \/ token_written
    \/ imds_v2_served

NextFetch ==
    \/ FetchStep
    \/ Tick

\* get_metadata is called again and again and every call runs to its end;
\* the clock advances between calls however often get_metadata is called
SpecFetch ==
    /\ InitFetch
    /\ [][NextFetch]_vars
    /\ WF_vars(FetchStep)
    /\ SF_vars(Tick)

----------------------------------------------------------------------------
(* Claims *)

\* Requests of the running (or last) operation
Sent == {reqs[i] : i \in 1..Len(reqs)}

Is200(r) == r.conn /\ r.status = 200

\* C1: every token sent in the X-aws-ec2-metadata-token header is sent
\* before the creation time of that very token plus the TTL of 360 s.
C1_TokenNeverUsedPastTtl ==
    \A r \in Sent :
        r.token # NoToken => r.at < r.token.t + CLOUD_PROVIDER_TOKEN_TTL

\* The in-memory token as it was when the operation was entered passes the
\* validity check of _get_token at the time of the operation's first request
EntryTokenValid ==
    /\ Len(reqs) >= 1
    /\ entry.token # NoToken
    /\ entry.ctime # NoTime
    /\ reqs[1].at < entry.ctime + CLOUD_PROVIDER_TOKEN_TTL

\* C2: when the unauthenticated GET of get_metadata answers 200, the body is
\* returned and nothing else happens: no further request (so no PUT), no
\* access to the cache file, in-memory token and creation time unchanged.
C2_ImdsV1SuccessNeedsNoToken ==
    (op = "aws_get_metadata" /\ Len(reqs) >= 1 /\ Is200(reqs[1])) =>
        /\ pc = "idle"
        /\ ret = RetBody(reqs[1].body)
        /\ Len(reqs) = 1
        /\ reqs[1].method = "GET" /\ reqs[1].url = AWS_METADATA_URL
        /\ file_ops = <<>>
        /\ token = entry.token
        /\ token_ctime = entry.ctime

\* C2 happens: a collector holding a valid token got 200 on the first GET
C2_Witness ==
    /\ op = "aws_get_metadata" /\ pc = "idle"
    /\ Len(reqs) = 1 /\ Is200(reqs[1])
    /\ ret = RetBody("docB")
    /\ EntryTokenValid

\* C3: when the unauthenticated GET fails, get_metadata returns a body if
\* and only if a token was obtained and the GET carrying exactly that token
\* answered 200 (the body being that answer's), and returns None otherwise.
C3_ImdsV2Outcome ==
    (op = "aws_get_metadata" /\ pc = "idle" /\ Len(reqs) >= 1 /\ ~Is200(reqs[1])) =>
        LET last == reqs[Len(reqs)]
            served == /\ Len(reqs) >= 2
                      /\ held # NoToken
                      /\ last.method = "GET" /\ last.url = AWS_METADATA_URL
                      /\ last.token = held
                      /\ Is200(last)
        IN /\ ret.kind = "body" <=> served
           /\ served => ret = RetBody(last.body)
           /\ ~served => ret = RetNone

\* C4 as claimed: an operation entered with a valid in-memory token issues
\* at most one request, and none to the token endpoint.
C4_AtMostOneCall ==
    (op = "aws_get_metadata" /\ EntryTokenValid) =>
        /\ Len(reqs) <= 1
        /\ \A r \in Sent : r.method # "PUT" /\ r.url # AWS_TOKEN_URL

\* C4 amended: an operation entered with a valid in-memory token issues at
\* most two requests (the unauthenticated GET and, when that fails, the GET
\* carrying the in-memory token), none of them to the token endpoint.
C4_AtMostTwoCallsNoTokenRequest ==
    (op = "aws_get_metadata" /\ EntryTokenValid) =>
        /\ Len(reqs) <= 2
        /\ \A r \in Sent : r.method # "PUT" /\ r.url # AWS_TOKEN_URL
        /\ Len(reqs) = 2 => reqs[2].token = entry.token

\* C4 happens: the second get_metadata reused the token of the first
C4_Witness ==
    /\ op = "aws_get_metadata" /\ pc = "idle"
    /\ EntryTokenValid
    /\ entry.token.src = "srv"
    /\ Len(reqs) = 2
    /\ reqs[2].token = entry.token
    /\ ret.kind = "body"

\* C5: every request carries the provider's user-agent header.
C5_UserAgentOnEveryRequest ==
    \A r \in Sent : r.ua = "RHSM/1.0"

\* A cache file content that is corrupt: not JSON, a parsed value without
\* the ctime or the token key, or a ctime that float() cannot convert
IsCorrupt(c) ==
    \/ c.kind = "notjson"
    \/ c.kind = "scalar"
    \/ c.ctime.k \in {"missing", "junk", "null"}
    \/ c.token.k = "missing"

\* C6: a cache lookup that read a corrupt file returned None without
\* raising, and token resolution went on to the token PUT.
C6_CorruptCacheIsAbsent ==
    \A i \in 1..Len(file_ops) :
        LET f == file_ops[i]
        IN (f.what = "read" /\ f.err = "none" /\ IsCorrupt(f.content)) =>
              /\ f.result = "none"
              /\ pc = "token_put" \/ \E r \in Sent : r.method = "PUT"

\* C7: whenever the cache file exists and holds a token its mode is 0600,
\* also between the steps of a cache write.
C7_CacheFileOwnerOnly ==
    HoldsToken(cache_file) => cache_file.mode = "0600"

\* C8: get_signature issues exactly one request, the unauthenticated GET of
\* the signature URL, returns its body on 200 and None otherwise, and
\* leaves the cache file and the in-memory token state alone.
C8_SignatureSingleGet ==
    op = "aws_get_signature" =>
        /\ pc \in {"signature_v1", "idle"}
        /\ Len(reqs) = (IF pc = "idle" THEN 1 ELSE 0)
        /\ \A r \in Sent :
              /\ r.method = "GET" /\ r.url = AWS_SIGNATURE_URL
              /\ r.token = NoToken
        /\ pc = "idle" =>
              ret = (IF Is200(reqs[1]) THEN RetBody(reqs[1].body) ELSE RetNone)
        /\ file_ops = <<>>
        /\ token = entry.token
        /\ token_ctime = entry.ctime

\* C8 happens: a collector holding a valid token was refused the signature
\* and gave None without using the token
C8_Witness ==
    /\ op = "aws_get_signature" /\ pc = "idle"
    /\ EntryTokenValid
    /\ ~Is200(reqs[1])
    /\ ret = RetNone

\* C9: each GCP get_metadata issues exactly one GET of the metadata URL (n
\* calls, n GETs), returns the body on 200 and None otherwise, and the
\* collector keeps nothing between calls.
C9_GcpOneGetPerCall ==
    /\ gcp_gets = (IF pc = "gcp_server" THEN gcp_calls - 1 ELSE gcp_calls)
    /\ gcp_fields = [metadata |-> "None", signature |-> "None"]
    /\ (op = "gcp_get_metadata" /\ pc = "idle") =>
          /\ Len(reqs) = 1
          /\ reqs[1].method = "GET" /\ reqs[1].url = GCP_METADATA_URL
          /\ ret = (IF Is200(reqs[1]) THEN RetBody(reqs[1].body) ELSE RetNone)

\* C9 happens: a call answered with a document was followed, later, by a
\* call that asked the server again and was refused
C9_Witness ==
    /\ op = "gcp_get_metadata" /\ pc = "idle"
    /\ gcp_calls = 3 /\ gcp_gets = 3
    /\ ~Is200(reqs[1])
    /\ ret = RetNone
    /\ now > 0

\* C10: GCP get_signature returns None and issues no request.
C10_GcpSignatureAbsent ==
    op = "gcp_get_signature" =>
        /\ pc = "idle"
        /\ ret = RetNone
        /\ reqs = <<>>
        /\ gcp_gets = gcp_calls

\* C10 happens: get_signature was called after metadata had been served
C10_Witness ==
    /\ op = "gcp_get_signature" /\ pc = "idle"
    /\ ret = RetNone
    /\ gcp_calls >= 2

\* The operations of CloudCollector that a subclass keeps
BaseOps == {"base_get_metadata", "base_get_signature"}

\* C11: get_metadata and get_signature of the base collector ask the cache
\* first and the server second: a document found in the cache is returned
\* and no request is made; when the cache gives None, exactly one fetch is
\* made and what it gives (document or None) is returned.
C11_CacheFirstThenServer ==
    op \in BaseOps =>
        /\ cached # RetNone => pc = "idle" /\ reqs = <<>> /\ ret = cached
        /\ cached = RetNone /\ pc = "base_server" => reqs = <<>>
        /\ cached = RetNone /\ pc = "idle" =>
            /\ Len(reqs) = 1
            /\ ret = IF Is200(reqs[1]) THEN RetBody(reqs[1].body) ELSE RetNone

\* get_metadata found a document in the cache and returned it
C11_Witness ==
    /\ op = "base_get_metadata"
    /\ pc = "idle"
    /\ cached = RetBody("docA")
    /\ ret = RetBody("docA")
    /\ reqs = <<>>

\* C12: _get_data_from_server issues one GET to the URL it was given, with
\* the collector's HTTP_HEADERS; a connection failure gives None with no
\* second request and no exception, a status other than 200 gives None, and
\* status 200 gives the body of the response as it is.
C12_OneGetBodyIf200 ==
    op \in BaseOps =>
        /\ Len(reqs) <= 1
        /\ ret # RetRaised
        /\ \A r \in Sent :
            /\ r.method = "GET"
            /\ r.url = (IF op = "base_get_metadata" THEN BASE_METADATA_URL
                                                    ELSE BASE_SIGNATURE_URL)
            /\ r.ua = BASE_HTTP_HEADERS.ua /\ r.flavor = BASE_HTTP_HEADERS.flavor
            /\ r.token = NoToken
            /\ pc = "idle" =>
                /\ ~r.conn => ret = RetNone
                /\ r.conn /\ r.status # 200 => ret = RetNone
                /\ r.conn /\ r.status = 200 => ret = RetBody(r.body)

\* The connection failed and the caller got None
C12_Witness ==
    /\ op = "base_get_signature"
    /\ pc = "idle"
    /\ Len(reqs) = 1
    /\ ~reqs[1].conn
    /\ ret = RetNone

\* hw_info says the host is a guest: virt.is_guest is there and is True
Guest == hw_info["virt.is_guest"] = Bool(TRUE)

\* The value under key k is a str that holds sub
Holds(k, sub) == hw_info[k].type = "str" /\ contains(hw_info[k].s, sub)

\* C13: when virt.is_guest is absent or False, both detectors say is_vm
\* False, is_running_on_cloud False and is_likely_running_on_cloud 0.0,
\* whatever the other facts are.
C13_NotGuestNothingDetected ==
    detected.by \in {"aws", "gcp"} /\ hw_info["virt.is_guest"] \in {Absent, Bool(FALSE)} =>
        /\ detected.is_vm = FALSE
        /\ detected.running = Gives(FALSE)
        /\ detected.likely = Gives(0)

\* The GCP detector was asked about a host that is no guest but has KVM as
\* its host type and Google as its BIOS vendor
C13_Witness ==
    /\ detected.by = "gcp"
    /\ hw_info["virt.is_guest"] = Bool(FALSE)
    /\ hw_info["virt.host_type"] = Str(V_kvm)
    /\ hw_info["dmi.bios.vendor"] = Str(V_Google)
    /\ detected.likely = Gives(0)

\* C14: is_running_on_cloud of the AWS detector is True exactly when the
\* host is a guest and dmi.bios.version holds "amazon", or dmi.bios.vendor
\* holds "Amazon EC2", or virt.host_type holds "aws"; it is False for a
\* guest with none of the three.
C14_AwsStrongSigns ==
    detected.by = "aws" =>
        detected.running =
            Gives(Guest /\ (\/ Holds("dmi.bios.version", KW_amazon)
                            \/ Holds("dmi.bios.vendor", KW_Amazon_EC2)
                            \/ Holds("virt.host_type", KW_aws)))

\* C15: is_running_on_cloud of the GCP detector is True exactly when the
\* host is a guest and dmi.bios.vendor is there and holds "google" in any
\* letter case; no other fact makes it True.
C15_GcpStrongSign ==
    detected.by = "gcp" =>
        detected.running =
            Gives(Guest /\ hw_info["dmi.bios.vendor"].type = "str"
                        /\ contains(lower(hw_info["dmi.bios.vendor"].s), KW_google))

\* C16: on every mapping of str and bool values, with any keys absent, the
\* two functions of both detectors give a value and raise no exception.
C16_DetectorsNeverRaise ==
    detected.by \in {"aws", "gcp"} =>
        ~detected.running.raised /\ ~detected.likely.raised

\* C17: the likelihood is_likely_running_on_cloud returns is between 0.0
\* and 1.0 (0 and 10 tenths), for both detectors and every mapping.
C17_LikelihoodInUnitInterval ==
    detected.by \in {"aws", "gcp"} /\ ~detected.likely.raised =>
        0 <= detected.likely.v /\ detected.likely.v <= 10

\* Every weight of the AWS detector counts: the likelihood is 1.0
C17_Witness ==
    /\ detected.by = "aws"
    /\ detected.likely = Gives(10)

\* The providers detect_cloud_provider listed
Listed == {detected.clouds.v[i] : i \in 1..Len(detected.clouds.v)}

Providers == {"aws", "gcp"}

\* The providers whose is_running_on_cloud is True on hw_info
Strong == {id \in Providers : is_running_on_cloud(id, hw_info) = Gives(TRUE)}

\* Likelihood of a provider on hw_info, in tenths
Likelihood(id) == is_likely_running_on_cloud(id, hw_info).v

\* The providers with no strong match and a likelihood above 0.0, by
\* descending likelihood
WeakOnly ==
    LET weak(id) == id \notin Strong /\ Likelihood(id) > 0
    IN  sorted_by_probability(SelectSeq(CLOUD_DETECTORS, weak), hw_info)

\* C18 as the specification states it: the providers with a strong match
\* come first in registration order, the providers with only a nonzero
\* likelihood follow by descending likelihood; strongly AWS and weakly GCP
\* gives ["aws", "gcp"].
C18_StrongThenWeak ==
    detected.by = "all" =>
        detected.clouds = Gives(strong_signs(hw_info) \o WeakOnly)

\* C18, amended: when exactly one provider matches strongly the result is
\* that provider alone; when none does, the result is the providers with a
\* nonzero likelihood by descending likelihood.  The KVM guest with vendor
\* "Amazon EC2" (strongly AWS, weakly GCP) gives ["aws"]; ["aws", "gcp"] is
\* what the KVM guest with vendor "AWS" gives, which matches no provider
\* strongly.
C18_OneStrongAloneElseWeak ==
    detected.by = "all" =>
        /\ \A id \in Providers : Strong = {id} => detected.clouds = Gives(<<id>>)
        /\ Strong = {} => detected.clouds = Gives(WeakOnly)
        /\ hw_info = test_detect_cloud_provider_aws =>
            /\ Strong = {"aws"} /\ Likelihood("gcp") > 0
            /\ detected.clouds = Gives(<<"aws">>)
        /\ hw_info = test_detect_cloud_provider_aws_heuristics =>
            /\ Strong = {}
            /\ detected.clouds = Gives(<<"aws", "gcp">>)

\* The heuristics put AWS before GCP for the KVM guest with vendor "AWS"
C18_Witness ==
    /\ detected.by = "all"
    /\ hw_info = test_detect_cloud_provider_aws_heuristics
    /\ detected.clouds = Gives(<<"aws", "gcp">>)

C20_WeakByDescendingLikelihood ==
    detected.by = "all" =>
        /\ Strong = {} =>
            /\ ~detected.clouds.raised
            /\ Listed = {id \in Providers : Likelihood(id) > 0}
            /\ Len(detected.clouds.v) = Cardinality(Listed)
            /\ \A i, j \in 1..Len(detected.clouds.v) :
                    i < j => Likelihood(detected.clouds.v[i]) >= Likelihood(detected.clouds.v[j])
        /\ \A id \in Providers :
                id \notin Strong /\ Likelihood(id) = 0 => id \notin Listed
        /\ hw_info = test_detect_cloud_provider_gcp_heuristics =>
                detected.clouds = Gives(<<"gcp", "aws">>)

\* Only GCP has a weak sign, and the result is ["gcp"]
C20_Witness ==
    /\ detected.by = "all"
    /\ Strong = {}
    /\ Likelihood("aws") = 0
    /\ Likelihood("gcp") > 0
    /\ detected.clouds = Gives(<<"gcp">>)

\* Accesses to the cache file made by the running (or last) operation
Writes == {i \in 1..Len(file_ops) : file_ops[i].what = "write"}

Reads == {i \in 1..Len(file_ops) : file_ops[i].what = "read"}

\* The token PUTs of the running (or last) operation
Puts == {i \in 1..Len(reqs) : reqs[i].method = "PUT"}

\* C21: the cache file is written only as the step that follows a token PUT
\* answered with 200, and what is written is the token of that answer: no
\* write follows a read of the cache file that gave a token, a reuse of the
\* in-memory token or a failed PUT, and get_signature writes nothing.
C21_WriteOnlyAfterSuccessfulPut ==
    /\ pc \in {"write_open", "write_dump", "write_chmod"} =>
           /\ op = "aws_get_metadata"
           /\ reqs[Len(reqs)].method = "PUT" /\ Is200(reqs[Len(reqs)])
    /\ Cardinality(Writes) <= 1
    /\ \A w \in Writes :
           /\ op = "aws_get_metadata"
           /\ \E i \in Puts :
                 /\ Is200(reqs[i])
                 /\ file_ops[w].content = JsonDict(str(reqs[i].at), TokenKey(reqs[i].tbody))
                 /\ \A j \in 1..Len(reqs) : j > i => reqs[j].method = "GET"
           /\ \A r \in Reads : r < w /\ file_ops[r].result # "token"
           /\ ~EntryTokenValid
    /\ \A i \in Puts : ~Is200(reqs[i]) => Writes = {} /\ pc = "idle"

\* The token of a PUT answered with 200 went to the cache file, after a read
\* of the file that gave no token
C21_Witness ==
    /\ pc = "imds_v2"
    /\ Writes # {} /\ Reads # {}
    /\ \E i \in Puts :
          Is200(reqs[i]) /\ cache_file.content = JsonDict(str(reqs[i].at), TokenKey(reqs[i].tbody))

\* The running (or last) get_metadata got to the token: IMDSv1 has failed
\* and _get_token has chosen where the token comes from
TokenResolved ==
    /\ op = "aws_get_metadata"
    /\ Len(reqs) >= 1 /\ ~Is200(reqs[1])
    /\ pc \notin {"get_token", "cache_file"}

\* The in-memory token the operation was entered with exists and is younger
\* than the TTL, by the time it was created at
MemoryTokenFresh ==
    entry.token # NoToken /\ reqs[1].at < entry.token.t + CLOUD_PROVIDER_TOKEN_TTL

\* A read of the cache file gave a token
FileGaveToken == \E r \in Reads : file_ops[r].result = "token"

\* C22: token resolution takes the in-memory token when it exists and
\* now < created_at + 360, with no read of the cache file and no request for
\* a token; otherwise it consults the cache file and takes a valid token
\* from it with no PUT; a PUT is issued only when neither gave a valid token.
C22_TokenResolutionOrder ==
    TokenResolved =>
        /\ MemoryTokenFresh => Reads = {} /\ Puts = {} /\ held = entry.token
        /\ ~MemoryTokenFresh /\ held # NoToken /\ Puts = {} =>
               \E r \in Reads : file_ops[r].result = "token"
                                 /\ held = file_ops[r].content.token.v
        /\ FileGaveToken => Puts = {}
        /\ Puts # {} => ~MemoryTokenFresh /\ ~FileGaveToken

\* C22 read with the creation time the collector keeps (_token_ctime), which
\* a read of the cache file can set to the time of another token
MemoryTokenValidByCtime == EntryTokenValid

C22_OrderByKeptCtime ==
    TokenResolved =>
        /\ MemoryTokenValidByCtime => Reads = {} /\ Puts = {} /\ held = entry.token
        /\ ~MemoryTokenValidByCtime /\ held # NoToken /\ Puts = {} =>
               \E r \in Reads : file_ops[r].result = "token"
                                 /\ held = file_ops[r].content.token.v
        /\ FileGaveToken => Puts = {}
        /\ Puts # {} => ~MemoryTokenValidByCtime /\ ~FileGaveToken

\* A complete ctime/token pair, as _write_token_to_cache_file writes it
WrittenPair(c) == c.kind = "dict" /\ c.ctime.k = "num" /\ c.token.k = "str"

\* C23: a token written to the cache file at time T comes back unchanged
\* from a read of the file at every time before T + 360; a read at T + 360
\* or later gives None, and token resolution goes on to the token PUT.
C23_CacheRoundTripWithinTtl ==
    \A r \in Reads :
        LET f == file_ops[r]
            T == f.content.ctime.v
        IN  f.err = "none" /\ WrittenPair(f.content) =>
              /\ reqs[1].at < T + CLOUD_PROVIDER_TOKEN_TTL =>
                    /\ f.result = "token"
                    /\ held = f.content.token.v
                    /\ f.content.token.v.t = T
                    /\ Puts = {}
              /\ reqs[1].at >= T + CLOUD_PROVIDER_TOKEN_TTL =>
                    /\ f.result = "none"
                    /\ pc = "token_put" \/ Puts # {}

\* A token written at T was read back at T + 240 and sent to the service
C23_Witness ==
    /\ pc = "idle"
    /\ \E r \in Reads :
          /\ file_ops[r].err = "none" /\ WrittenPair(file_ops[r].content)
          /\ file_ops[r].result = "token"
          /\ reqs[1].at = file_ops[r].content.ctime.v + 240
          /\ reqs[Len(reqs)].token = file_ops[r].content.token.v

\* The last request sent so far
LastReq == reqs[Len(reqs)]

\* The pair that belongs to the token PUT r
PairOf(r) == JsonDict(str(r.at), TokenKey(r.tbody))

TokenGets == {i \in 1..Len(reqs) : reqs[i].method = "GET" /\ reqs[i].token # NoToken}

\* The GETs that carry no token
PlainGets == {i \in 1..Len(reqs) : reqs[i].method = "GET" /\ reqs[i].token = NoToken}

\* C25: one get_metadata call of the AWS collector sends at most one GET
\* without token, then at most one token PUT, then at most one GET with
\* token, in that order; the GET with token is sent only when a token was
\* obtained (from memory, from the cache file, or from that PUT answered
\* 200), and after a rejected token the call ends with no further request.
C25_OneAttemptPerCall ==
    op = "aws_get_metadata" =>
        /\ Cardinality(PlainGets) <= 1
        /\ Cardinality(Puts) <= 1
        /\ Cardinality(TokenGets) <= 1
        /\ \A i \in PlainGets : i = 1
        /\ \A i \in Puts : i = 2
        /\ \A i \in TokenGets : /\ i = Len(reqs) /\ i > 1
                                 /\ pc = "idle"
                                 /\ reqs[i].token = held
                                 /\ \A j \in Puts : Is200(reqs[j]) /\ reqs[i].token = reqs[j].tbody
                                 /\ Puts = {} => \/ held = entry.token
                                                 \/ \E r \in Reads : /\ file_ops[r].result = "token"
                                                                     /\ held = file_ops[r].content.token.v
        /\ (pc \in {"token_put", "imds_v2"} \/ Puts # {}) => PlainGets = {1} /\ ~Is200(reqs[1])

\* A call went through all three requests and the token was rejected
C25_Witness ==
    /\ op = "aws_get_metadata" /\ pc = "idle" /\ Len(reqs) = 3
    /\ PlainGets = {1} /\ Puts = {2} /\ TokenGets = {3}
    /\ LastReq.conn /\ LastReq.status # 200 /\ ret = RetNone

\* C26: when opening or reading the existing cache file fails with a file
\* system error, the lookup gives None without raising, and token resolution
\* goes on to the token PUT.
C26_CacheReadErrorGivesNone ==
    \A r \in Reads :
        file_ops[r].err \in {"open", "read"} =>
            /\ file_ops[r].result = "none"
            /\ ret # RetRaised
            /\ pc = "token_put" \/ Puts # {}

\* C27: when the cache file cannot be written or its mode cannot be set
\* after a token PUT answered 200, the call of get_metadata still ends
\* without an exception, with the GET that carries the fresh token as its
\* last request, and returns the document when that GET answers 200.
C27_CacheWriteBestEffort ==
    (op = "aws_get_metadata" /\ pc = "idle" /\ \E i \in Puts : Is200(reqs[i])) =>
        /\ ret # RetRaised
        /\ LastReq.method = "GET"
        /\ \E i \in Puts : LastReq.token = reqs[i].tbody
        /\ Is200(LastReq) => ret = RetBody(LastReq.body)

\* C28: when two collector processes refresh the token on one cache file,
\* then under every interleaving of their open/truncate, write, chmod and
\* read steps (a) once both have finished the file holds the complete
\* ctime/token pair of the process whose write came last, and (b) every
\* cache-file read of either process gave a token that was written by one
\* of them and had not expired, or gave None, and never raised.
C28_LastWriterWinsReadsAreSafe ==
    /\ ((\A p \in Procs : proc_pc[p] = "done") /\ last_writer # 0) =>
           race_file.bytes = content_bytes(last_writer)
    /\ \A p \in Procs :
           /\ proc_read[p].result \in {"unread", "none", "token"}
           /\ proc_read[p].result = "token" =>
                 \E q \in Procs :
                     /\ proc_token[q].token # NoToken
                     /\ proc_read[p].content =
                            JsonDict(str(proc_token[q].ctime), TokenKey(proc_token[q].token))
                     /\ proc_read[p].at < proc_token[q].ctime + CLOUD_PROVIDER_TOKEN_TTL

\* The value under key k is a str whose lower-case form starts with sub
StartsLower(k, sub) == hw_info[k].type = "str" /\ startswith(lower(hw_info[k].s), sub)

\* C29: for a guest the AWS likelihood takes 0.3 from a virt.host_type that
\* holds "kvm", otherwise 0.2 from one that holds "xen", never both; a
\* dmi.system.uuid that starts with "ec2" in any letter case adds 0.1 to
\* whatever the hypervisor gave; the rest is the keyword scan.  A guest
\* whose only fact besides virt.is_guest is such a UUID scores exactly 0.1.
C29_HypervisorAndUuidParts ==
    (detected.by = "aws" /\ Guest) =>
        LET hypervisor == IF Holds("virt.host_type", KW_kvm) THEN 3
                          ELSE IF Holds("virt.host_type", KW_xen) THEN 2
                          ELSE 0
            uuid == IF StartsLower("dmi.system.uuid", KW_ec2) THEN 1 ELSE 0
        IN  /\ detected.likely = Gives(hypervisor + uuid + aws_keyword_tenths(hw_info))
            /\ (/\ uuid = 1
                /\ \A k \in Keys \ {"virt.is_guest", "dmi.system.uuid"} : hw_info[k] = Absent)
                   => detected.likely = Gives(1)

\* The highest tier of the AWS keywords a text holds: 3 for "amazon ec2",
\* 2 for "amazon", 1 for "aws", 0 for none
Tier(v) ==
    IF contains(lower(v), KW_amazon_ec2) THEN 3
    ELSE IF contains(lower(v), KW_amazon) THEN 2
    ELSE IF contains(lower(v), KW_aws) THEN 1
    ELSE 0

\* The tiers the str values of hw_info register
Tiers == {Tier(hw_info[k].s) : k \in {key \in Keys : hw_info[key].type = "str"}}

\* C30: for a guest the keyword scan of the AWS detector skips the values
\* that are no str, takes from every str value only the highest tier it
\* holds in any letter case, counts the tiers of different values side by
\* side, and adds the weight of a tier (0.3, 0.2, 0.1) once however many
\* values hold it; the likelihood is that sum on top of the hypervisor and
\* UUID parts.
C30_KeywordScanTiers ==
    (detected.by = "aws" /\ Guest) =>
        detected.likely =
            Gives(aws_hypervisor_tenths(hw_info) + aws_uuid_tenths(hw_info)
                  + (IF 3 \in Tiers THEN 3 ELSE 0)
                  + (IF 2 \in Tiers THEN 2 ELSE 0)
                  + (IF 1 \in Tiers THEN 1 ELSE 0))

\* C31: a read of the cache file that gives None (file missing, damaged, or
\* token expired) leaves the in-memory token and the in-memory creation
\* time as they were; the creation time becomes the ctime of the file only
\* in a read that gives a token.
C31_AbsentReadLeavesMemory ==
    [][ pc = "cache_file" =>
          /\ token' = token
          /\ pc' = "token_put" => token_ctime' = token_ctime
          /\ token_ctime' # token_ctime =>
                /\ pc' = "imds_v2"
                /\ held' = cache_file.content.token.v
                /\ token_ctime' = cache_file.content.ctime.v
      ]_vars

\* Token k is valid at the time of the last recorded run of _get_token and
\* no longer at the present time
ExpiresSince(k) ==
    /\ k # NoToken
    /\ resolved.at < k.t + CLOUD_PROVIDER_TOKEN_TTL
    /\ now >= k.t + CLOUD_PROVIDER_TOKEN_TTL

\* The token of the cache file, if it holds a complete pair
FileToken == IF HoldsToken(cache_file) THEN cache_file.content.token.v ELSE NoToken

\* C32: when a run of _get_token returns a token (from memory or from the
\* cache file), the run before it has returned a token too, no other process has changed the cache file since
\* then (the file the new run finds is the file the run before left) and
\* none of the tokens in memory, in the file or returned before has expired
\* in between, then both runs return the same token.
C32_TokenResolutionStable ==
    [][ (/\ pc \in {"get_token", "cache_file"}
         /\ pc' = "imds_v2"
         /\ resolved.token # NoToken
         /\ cache_file = resolved.file
         /\ ~ExpiresSince(resolved.token)
         /\ ~ExpiresSince(token)
         /\ ~ExpiresSince(FileToken))
        => held' = resolved.token
      ]_vars

\* get_metadata has returned the metadata document
DocumentReturned == op = "aws_get_metadata" /\ pc = "idle" /\ ret.kind = "body"

\* C33: with the clock advancing, no other process on the cache file, IMDSv1
\* always refused, every token PUT answered 200 and the service accepting
\* exactly its own tokens younger than 360 s, a collector whose get_metadata
\* is called again and again eventually returns the metadata document,
\* whatever token it held in memory and whatever the cache file held at first.
C33_EventuallyDocument == <>DocumentReturned

\* C34: on facts whose named values are str, whenever is_running_on_cloud
\* of the AWS or the GCP detector returns True, is_likely_running_on_cloud
\* of the same detector returns a value above 0.0.
C34_StrongImpliesWeak ==
    (detected.by \in {"aws", "gcp"} /\ detected.running = Gives(TRUE)) =>
        /\ ~detected.likely.raised
        /\ detected.likely.v > 0

\* A guest known as GCP by its BIOS vendor alone, on a hypervisor that is
\* not KVM: the likelihood is the 0.3 of the keyword
C34_Witness ==
    /\ detected.by = "gcp"
    /\ detected.running = Gives(TRUE)
    /\ ~Holds("virt.host_type", KW_kvm)
    /\ detected.likely = Gives(3)

====
